---- MODULE Spec2Model ----
(***************************************************************************)
(* State-machine model of the zenv hub web client:                         *)
(*   src/src/lib/store.js      the shared containers and the notification  *)
(*                             queue (addNotification, removeNotification) *)
(*   src/src/lib/api.js        the HTTP gateway functions                  *)
(*   src/src/routes/+page.svelte  the home page's loads and subscriptions  *)
(*   src/badges.md             the badge generator (updatePreview)         *)
(*   src/packages.md           the packages page (search, refresh, loads)  *)
(*   src/unnamed/part_000      the static home page (loadRecentPackages)   *)
(*   src/src/lib/components/PackageCard.svelte  formatBytes and the        *)
(*                             download button (handleDownload)            *)
(* JavaScript values are modelled as tagged records, the event loop as     *)
(* interleaved atomic actions (one action per run-to-completion task).     *)
(***************************************************************************)
EXTENDS Integers, Sequences, FiniteSets, TLC

VARIABLES
    now,            \* Date.now(): the wall clock, in clock ticks
    notifications,  \* store.js:9, the value of the notifications container
    born,           \* history: for each queue entry, the number of the addNotification call that built it
    timers,         \* the armed setTimeout callbacks of store.js:17
    calls,          \* history: one record per addNotification call so far
    fired,          \* history: the calls whose timer callback has run
    lastOp,         \* history: the operation that made the last step
    packages,       \* store.js:5, the value of the packages container
    serverStatus,   \* store.js:7, the value of the serverStatus container
    pending,        \* the loads of +page.svelte that await their request
    mounts,         \* history: how often the home page was mounted
    pkgFrom,        \* history: the request outcome behind the last loadPackages completion
    statusFrom,     \* history: the request outcome behind the last loadServerStatus completion
    rejected,       \* history: the loads whose promise rejected
    done,           \* history: the loads that have completed, in order of completion
    apiResult,      \* history: the last gateway call, its request outcome and its completion
    badgeForm,      \* badges.md:15-38, the values of the label, value, color and logo controls
    badgeImg,       \* badges.md:119, the preview image: its src and alt, the
                    \* source its error handler assigns, the state of its
                    \* load and the number of error events it has had
    markdownCode,   \* badges.md:122, the text of #markdown-code
    svgUrl,         \* badges.md:125, the value of #svg-url
    successMsgs,    \* badges.md:132-145, how many success messages #badge-preview shows
    lastRun,        \* history: what started the last updatePreview run and how it completed
    allPackages,    \* packages.md:51
    searchBox,      \* packages.md:10, the value of #package-search
    catalogView,    \* packages.md:15-26, what #packages-loading, #packages-container,
                    \* #total-packages and #packages-grid show
    fetches,        \* the loadPackages calls of packages.md:62-80 awaiting their response
    lastFilter,     \* history: the last handler of the packages page and, for a search,
                    \* its term, the list it ran on and its completion
    homeView,       \* +page.svelte:7-8, recentPackages and stats of the home page component
    packagesSubs,   \* the subscribers of the packages container, in subscription order
    recentDiv,      \* unnamed/part_000:116-141, what #recent-packages of the static page shows
    lastHome,       \* history: the last step of the home pages
    sizeValue,      \* PackageCard.svelte:62 and packages.md:111, the size a package card shows
    user,           \* store.js:4, the value of the user container
    badges,         \* store.js:6, the value of the badges container
    loading,        \* store.js:8, the value of the loading container
    subs,           \* the subscribers of the packages and of the serverStatus
                    \* container, each in subscription order
    delivered,      \* history: the last subscribe or set call on a container and
                    \* the subscriber callbacks it ran, in the order it ran them
    downloads,      \* the handleDownload calls of PackageCard.svelte:7-25 that
                    \* await downloadPackage
    lastDownload    \* history: the last handleDownload call that resumed

vars == << now, notifications, born, timers, calls, fired, lastOp,
           packages, serverStatus, pending, mounts, pkgFrom, statusFrom,
           rejected, done, apiResult,
           badgeForm, badgeImg, markdownCode, svgUrl, successMsgs, lastRun,
           allPackages, searchBox, catalogView, fetches, lastFilter,
           homeView, packagesSubs, recentDiv, lastHome, sizeValue,
           user, badges, loading, subs, delivered, downloads, lastDownload >>

storeVars == << now, notifications, born, timers, calls, fired, lastOp >>
badgeVars == << badgeForm, badgeImg, markdownCode, svgUrl, successMsgs, lastRun >>
catalogVars == << allPackages, searchBox, catalogView, fetches, lastFilter >>
homeVars == << homeView, packagesSubs, recentDiv, lastHome >>
bytesVars == << sizeValue >>
hubVars == << user, badges, loading, subs, delivered >>
cardVars == << downloads, lastDownload >>
siteVars == << badgeVars, catalogVars, homeVars, bytesVars, hubVars, cardVars >>
nonBadgeVars == << catalogVars, homeVars, bytesVars, hubVars, cardVars >>
nonCatalogVars == << badgeVars, homeVars, bytesVars, hubVars, cardVars >>
nonHomeVars == << badgeVars, catalogVars, bytesVars, hubVars, cardVars >>
nonBytesVars == << badgeVars, catalogVars, homeVars, hubVars, cardVars >>
nonHubVars == << badgeVars, catalogVars, homeVars, bytesVars, cardVars >>
nonCardVars == << badgeVars, catalogVars, homeVars, bytesVars, hubVars >>
pageVars == << packages, serverStatus, pending, mounts, pkgFrom, statusFrom, rejected,
              done >>

-----------------------------------------------------------------------------
(* Bounds of the model.                                                    *)

MaxTime == 2
MaxAdds == 2
MaxMounts == 2

\* the (message, type) pairs addNotification is called with: the two calls of
\* PackageCard.svelte:20 and :23, and one with the default type of store.js:12
Notices == { [message |-> "Package zv téléchargé!", type |-> "success"],
             [message |-> "Erreur de téléchargement", type |-> "error"],
             [message |-> "hello", type |-> "info"] }
Durations == {-1, 0, 1, 2}
Ids == 0 .. MaxTime

-----------------------------------------------------------------------------
(* JavaScript values.                                                      *)

Undef == [t |-> "undefined"]
Null == [t |-> "null"]
Str(s) == [t |-> "string", s |-> s]
Num(n) == [t |-> "number", n |-> n]
Arr(a) == [t |-> "array", items |-> a]
Obj(f) == [t |-> "object", fields |-> f]
Blob(b) == [t |-> "blob", bytes |-> b]
Bool(b) == [t |-> "boolean", b |-> b]
Function == [t |-> "function"]

-----------------------------------------------------------------------------
(* The notification queue, store.js.                                       *)

\* the entries of q at the positions in S, in the order of q
RECURSIVE Pick(_, _, _)
Pick(q, S, i) ==
    IF i > Len(q) THEN << >>
    ELSE (IF i \in S THEN << q[i] >> ELSE << >>) \o Pick(q, S, i + 1)

\* the positions notification.id !== id keeps
Kept(n, id) == {i \in 1 .. Len(n) : n[i].id # id}

\* a removal that stops at the first match (findIndex and splice)
removeFirstMatch(n, id) ==
    LET M == (1 .. Len(n)) \ Kept(n, id)
    IN  IF M = {} THEN n
        ELSE Pick(n, (1 .. Len(n)) \ {CHOOSE i \in M : \A j \in M : i <= j}, 1)

\* store.js:26, n.filter(notification => notification.id !== id)
removeNotification(n, id) == Pick(n, Kept(n, id), 1)

\* an update that puts the new entry first, [{ id, message, type }, ...n]
prependNotification(n, id, message, type) ==
    << [id |-> id, message |-> message, type |-> type] >> \o n

\* store.js:14, [...n, { id, message, type }]
appendNotification(n, id, message, type) ==
    n \o << [id |-> id, message |-> message, type |-> type] >>

\* the queue with each entry tagged by the call that built it, and back
Tagged(n, b) == [i \in 1 .. Len(n) |-> [id |-> n[i].id, call |-> b[i]]]
CallsOf(q) == [i \in 1 .. Len(q) |-> q[i].call]

NoOp == [op |-> "init"]

InitStore ==
    /\ now = 0
    /\ notifications = << >>
    /\ born = << >>
    /\ timers = {}
    /\ calls = << >>
    /\ fired = {}
    /\ lastOp = NoOp

\* store.js:12-23, what a call of addNotification does to the queue
addNotification(message, type, duration) ==
    /\ Len(calls) < MaxAdds
    /\ LET id == now
           c == Len(calls) + 1
       IN  /\ notifications' = appendNotification(notifications, id, message, type)
           /\ born' = Append(born, c)
           /\ timers' = IF duration > 0
                        THEN timers \cup {[id |-> id, due |-> now + duration, call |-> c]}
                        ELSE timers
           /\ calls' = Append(calls, [id |-> id, duration |-> duration])
           /\ lastOp' = [op |-> "add", call |-> c, id |-> id, ret |-> id,
                         message |-> message, type |-> type, duration |-> duration,
                         before |-> notifications, bornBefore |-> born]
    /\ UNCHANGED << now, fired >>

\* addNotification called by a consumer
AddNotification(message, type, duration) ==
    /\ addNotification(message, type, duration)
    /\ UNCHANGED << pageVars, apiResult, siteVars >>

\* store.js:25-27, called by a consumer (a dismiss click) with any id
RemoveNotification(id) ==
    /\ notifications' = removeNotification(notifications, id)
    /\ born' = CallsOf(removeNotification(Tagged(notifications, born), id))
    /\ lastOp' = [op |-> "remove", id |-> id,
                  before |-> notifications, bornBefore |-> born]
    /\ UNCHANGED << now, timers, calls, fired >>
    /\ UNCHANGED << pageVars, apiResult, siteVars >>

\* Timers run no earlier than their due time, in order of due time, and in
\* order of creation among equal due times.
NextTimer(t) ==
    /\ t \in timers
    /\ now >= t.due
    /\ \A u \in timers : u.due > t.due \/ (u.due = t.due /\ u.call >= t.call)

\* a timer callback with a removal of its own, which takes out one entry only
TimerFireFirstMatch(t) ==
    /\ NextTimer(t)
    /\ notifications' = removeFirstMatch(notifications, t.id)
    /\ born' = CallsOf(removeFirstMatch(Tagged(notifications, born), t.id))
    /\ timers' = timers \ {t}
    /\ fired' = fired \cup {t.call}
    /\ lastOp' = [op |-> "timer", call |-> t.call, id |-> t.id,
                  before |-> notifications, bornBefore |-> born]
    /\ UNCHANGED << now, calls >>
    /\ UNCHANGED << pageVars, apiResult, siteVars >>

\* store.js:17-19, the timer callback
TimerFire(t) ==
    /\ NextTimer(t)
    /\ notifications' = removeNotification(notifications, t.id)
    /\ born' = CallsOf(removeNotification(Tagged(notifications, born), t.id))
    /\ timers' = timers \ {t}
    /\ fired' = fired \cup {t.call}
    /\ lastOp' = [op |-> "timer", call |-> t.call, id |-> t.id,
                  before |-> notifications, bornBefore |-> born]
    /\ UNCHANGED << now, calls >>
    /\ UNCHANGED << pageVars, apiResult, siteVars >>

\* the clock advances by one tick
Tick ==
    /\ now < MaxTime
    /\ now' = now + 1
    /\ lastOp' = [op |-> "tick"]
    /\ UNCHANGED << notifications, born, timers, calls, fired >>
    /\ UNCHANGED << pageVars, apiResult, siteVars >>

NextStore ==
    \/ \E nt \in Notices, d \in Durations : AddNotification(nt.message, nt.type, d)
    \/ \E id \in Ids : RemoveNotification(id)
    \/ \E t \in timers : TimerFire(t)
    \/ Tick

-----------------------------------------------------------------------------
(* JavaScript semantics used by api.js.                                    *)

Nullish(v) == v.t \in {"undefined", "null"}

\* ToBoolean, as `||` applies it
Truthy(v) ==
    CASE v.t \in {"undefined", "null"} -> FALSE
      [] v.t = "string" -> v.s # ""
      [] v.t = "number" -> v.n # 0
      [] v.t = "boolean" -> v.b
      [] OTHER -> TRUE

\* a || b
Or(a, b) == IF Truthy(a) THEN a ELSE b

HasFields(v) == v.t \in {"object", "response", "AxiosError"}

\* v.k for a v that is not null or undefined
GetProp(v, k) ==
    IF HasFields(v) /\ k \in DOMAIN v.fields THEN v.fields[k] ELSE Undef

\* v?.k
OptProp(v, k) == IF Nullish(v) THEN Undef ELSE GetProp(v, k)

Digits == << "0", "1", "2", "3", "4", "5", "6", "7", "8", "9" >>

RECURSIVE DecStr(_)
DecStr(n) == IF n < 10 THEN Digits[n + 1] ELSE DecStr(n \div 10) \o Digits[(n % 10) + 1]

\* String(v), the conversion `new Error(v)` applies to its message
ToStr(v) ==
    CASE v.t = "string" -> v.s
      [] v.t = "number" -> IF v.n < 0 THEN "-" \o DecStr(0 - v.n) ELSE DecStr(v.n)
      [] v.t = "null" -> "null"
      [] v.t = "undefined" -> "undefined"
      [] OTHER -> "[object Object]"

\* how a function body completes
Return(v) == [c |-> "return", v |-> v]
Throw(e) == [c |-> "throw", error |-> e]

TypeError == [t |-> "TypeError"]
Error(message) == [t |-> "Error", message |-> message]

-----------------------------------------------------------------------------
(* What one HTTP request can come to.                                      *)

Statuses == {200, 204, 404, 500}

Pkg(name, version) == Obj([name |-> Str(name), version |-> Str(version)])
PkgList == Arr(<< Pkg("zenv-core", "1.0.0"), Pkg("my-db-tool", "0.2.0") >>)
BadgeList == Arr(<< Obj([name |-> Str("version"), label |-> Str("Zenv"), value |-> Str("2.1.0")]) >>)

Bodies == {
    Null, Str(""), Str("<html>"), Arr(<< >>), Obj(<< >>),
    Obj([packages |-> Arr(<< >>)]), Obj([packages |-> PkgList]),
    Obj([packages |-> Null]), Obj([packages |-> Str("unavailable")]),
    Obj([packages |-> Obj([count |-> Num(2)])]),
    Obj([badges |-> BadgeList]), Obj([badges |-> Num(3)]),
    Obj([error |-> Str("Invalid credentials")]), Obj([error |-> Str("")]),
    Obj([error |-> Null]), Obj([error |-> Num(42)]), Obj([message |-> Str("denied")]),
    Obj([error |-> Obj([code |-> Num(401)])]),
    Obj([status |-> Str("ok"), github |-> Str("connected")]),
    Obj([token |-> Str("zenv_t0")]),
    Blob(<< >>), Blob(<< 122, 118 >>) }

\* no response at all (network error, or the timeout of api.js:7), or a
\* response with a status and a body
Outcomes ==
    {[kind |-> "network"], [kind |-> "timeout"]}
    \cup {[kind |-> "response", status |-> st, data |-> d] : st \in Statuses, d \in Bodies}

\* the outcomes the home page's two requests are checked with
PageBodies == {
    Null, Obj([packages |-> Arr(<< >>)]), Obj([packages |-> PkgList]),
    Obj([error |-> Str("Invalid credentials")]),
    Obj([status |-> Str("ok"), github |-> Str("connected")]) }

PageOutcomes ==
    {[kind |-> "network"], [kind |-> "timeout"]}
    \cup {[kind |-> "response", status |-> st, data |-> d] : st \in {200, 500}, d \in PageBodies}

Response(o) == [t |-> "response", fields |-> [status |-> Num(o.status), data |-> o.data]]

\* api.get / api.post: the promise resolves with the response for a 2xx
\* status and rejects otherwise, with error.response set when there was one
request(o) ==
    IF o.kind = "response" /\ o.status >= 200 /\ o.status < 300
    THEN Return(Response(o))
    ELSE Throw([t |-> "AxiosError",
                fields |-> [response |-> IF o.kind = "response" THEN Response(o) ELSE Undef]])

-----------------------------------------------------------------------------
(* The gateway functions, api.js.                                          *)

\* api.js:13-14, response.data.<field> || []
listTry(o, field) ==
    LET r == request(o)
    IN  IF r.c = "throw" THEN r
        ELSE IF Nullish(GetProp(r.v, "data")) THEN Throw(TypeError)
        ELSE Return(Or(GetProp(GetProp(r.v, "data"), field), Arr(<< >>)))

\* api.js:11-19
getPackages(o) ==
    LET b == listTry(o, "packages")
    IN  IF b.c = "throw" THEN Return(Arr(<< >>)) ELSE b

\* api.js:21-29
getBadges(o) ==
    LET b == listTry(o, "badges")
    IN  IF b.c = "throw" THEN Return(Arr(<< >>)) ELSE b

\* api.js:33-34 and 45 and 58 and 71, return response.data
dataTry(o) ==
    LET r == request(o)
    IN  IF r.c = "throw" THEN r ELSE Return(GetProp(r.v, "data"))

\* a catch block that drops the github field
getServerStatusNoGithub(o) ==
    LET b == dataTry(o)
    IN  IF b.c = "throw" THEN Return(Obj([status |-> Str("error")])) ELSE b

\* api.js:31-38
getServerStatus(o) ==
    LET b == dataTry(o)
    IN  IF b.c = "throw"
        THEN Return(Obj([status |-> Str("error"), github |-> Str("disconnected")]))
        ELSE b

\* a catch block that logs and rethrows
downloadPackageRethrow(o) == dataTry(o)

\* api.js:40-50
downloadPackage(o) ==
    LET b == dataTry(o)
    IN  IF b.c = "throw" THEN Return(Null) ELSE b

\* a catch block without the optional chaining, error.response.data.error || generic
authMessageNoChain(e, generic) ==
    IF Nullish(GetProp(e, "response")) \/ Nullish(GetProp(GetProp(e, "response"), "data"))
    THEN "Cannot read properties of undefined"
    ELSE ToStr(Or(GetProp(GetProp(GetProp(e, "response"), "data"), "error"), Str(generic)))

\* error.response?.data?.error || generic, the message of the Error thrown
\* by the catch blocks of api.js:60 and api.js:73
authMessage(e, generic) ==
    ToStr(Or(OptProp(OptProp(OptProp(e, "response"), "data"), "error"), Str(generic)))

\* api.js:52-62
login(o) ==
    LET b == dataTry(o)
    IN  IF b.c = "throw" THEN Throw(Error(authMessage(b.error, "Login failed"))) ELSE b

\* api.js:64-75
register(o) ==
    LET b == dataTry(o)
    IN  IF b.c = "throw" THEN Throw(Error(authMessage(b.error, "Registration failed"))) ELSE b

Gateway(fn, o) ==
    CASE fn = "getPackages" -> getPackages(o)
      [] fn = "getBadges" -> getBadges(o)
      [] fn = "getServerStatus" -> getServerStatus(o)
      [] fn = "downloadPackage" -> downloadPackage(o)
      [] fn = "login" -> login(o)
      [] fn = "register" -> register(o)

\* the record of one call of a gateway function: its request's outcome and
\* how the call completed
Called(fn, o) == [fn |-> fn, outcome |-> o, result |-> Gateway(fn, o)]

GetPackages ==
    /\ \E o \in Outcomes : apiResult' = Called("getPackages", o)
    /\ UNCHANGED << storeVars, pageVars, siteVars >>

GetBadges ==
    /\ \E o \in Outcomes : apiResult' = Called("getBadges", o)
    /\ UNCHANGED << storeVars, pageVars, siteVars >>

GetServerStatus ==
    /\ \E o \in Outcomes : apiResult' = Called("getServerStatus", o)
    /\ UNCHANGED << storeVars, pageVars, siteVars >>

DownloadPackage ==
    /\ \E o \in Outcomes : apiResult' = Called("downloadPackage", o)
    /\ UNCHANGED << storeVars, pageVars, siteVars >>

Login ==
    /\ \E o \in Outcomes : apiResult' = Called("login", o)
    /\ UNCHANGED << storeVars, pageVars, siteVars >>

Register ==
    /\ \E o \in Outcomes : apiResult' = Called("register", o)
    /\ UNCHANGED << storeVars, pageVars, siteVars >>

NextApi ==
    \/ GetPackages
    \/ GetBadges
    \/ GetServerStatus
    \/ DownloadPackage
    \/ Login
    \/ Register

-----------------------------------------------------------------------------
(* The home page, routes/+page.svelte.                                     *)

\* +page.svelte:19-24, onMount starts both loads; each suspends at its await
Mount ==
    /\ mounts < MaxMounts
    /\ mounts' = mounts + 1
    /\ pending' = pending \cup {[op |-> "loadPackages", n |-> mounts + 1],
                                [op |-> "loadServerStatus", n |-> mounts + 1]}
    /\ UNCHANGED << packages, serverStatus, pkgFrom, statusFrom, rejected, done >>
    /\ UNCHANGED << storeVars, apiResult, siteVars >>

\* a.concat(b) for two arrays, b otherwise
concatArrays(a, b) ==
    IF a.t = "array" /\ b.t = "array" THEN Arr(a.items \o b.items) ELSE b

\* a loadPackages that adds what it fetched to what the container holds
\* (packages.update(p => p.concat(data)))
LoadPackagesMerged(p, o) ==
    /\ p \in pending
    /\ p.op = "loadPackages"
    /\ LET r == getPackages(o)
       IN  /\ packages' = IF r.c = "return" THEN concatArrays(packages, r.v) ELSE packages
           /\ rejected' = IF r.c = "return" THEN rejected ELSE rejected \cup {p}
    /\ pkgFrom' = [kind |-> "load", n |-> p.n, outcome |-> o, before |-> packages]
    /\ pending' = pending \ {p}
    /\ done' = Append(done, p)
    /\ UNCHANGED << serverStatus, mounts, statusFrom >>
    /\ UNCHANGED << storeVars, apiResult, siteVars >>

\* a loadPackages that keeps the catalog it holds when nothing was fetched
\* (if (data.length) packages.set(data))
LoadPackagesKept(p, o) ==
    /\ p \in pending
    /\ p.op = "loadPackages"
    /\ LET r == getPackages(o)
       IN  /\ packages' = IF r.c = "return" /\ r.v # Arr(<< >>) THEN r.v ELSE packages
           /\ rejected' = IF r.c = "return" THEN rejected ELSE rejected \cup {p}
    /\ pkgFrom' = [kind |-> "load", n |-> p.n, outcome |-> o, before |-> packages]
    /\ pending' = pending \ {p}
    /\ done' = Append(done, p)
    /\ UNCHANGED << serverStatus, mounts, statusFrom >>
    /\ UNCHANGED << storeVars, apiResult, siteVars >>

\* +page.svelte:26-29, loadPackages resumes with the result of getPackages
LoadPackagesDone(p, o) ==
    /\ p \in pending
    /\ p.op = "loadPackages"
    /\ LET r == getPackages(o)
       IN  /\ packages' = IF r.c = "return" THEN r.v ELSE packages
           /\ rejected' = IF r.c = "return" THEN rejected ELSE rejected \cup {p}
    /\ pkgFrom' = [kind |-> "load", n |-> p.n, outcome |-> o, before |-> packages]
    /\ pending' = pending \ {p}
    /\ done' = Append(done, p)
    /\ UNCHANGED << serverStatus, mounts, statusFrom >>
    /\ UNCHANGED << storeVars, apiResult, siteVars >>

\* a mount that awaits the two loads one after the other (await loadPackages();
\* await loadServerStatus();): the status load resumes only after the package
\* load of the same mount
LoadServerStatusAfterPackages(p, o) ==
    /\ p \in pending
    /\ p.op = "loadServerStatus"
    /\ [op |-> "loadPackages", n |-> p.n] \notin pending
    /\ LET r == getServerStatus(o)
       IN  /\ serverStatus' = IF r.c = "return" THEN r.v ELSE serverStatus
           /\ rejected' = IF r.c = "return" THEN rejected ELSE rejected \cup {p}
    /\ statusFrom' = [kind |-> "load", n |-> p.n, outcome |-> o]
    /\ pending' = pending \ {p}
    /\ done' = Append(done, p)
    /\ UNCHANGED << packages, mounts, pkgFrom >>
    /\ UNCHANGED << storeVars, apiResult, siteVars >>

\* a loadServerStatus that empties the catalog while it reports the status
LoadServerStatusClearsCatalog(p, o) ==
    /\ p \in pending
    /\ p.op = "loadServerStatus"
    /\ LET r == getServerStatus(o)
       IN  /\ serverStatus' = IF r.c = "return" THEN r.v ELSE serverStatus
           /\ rejected' = IF r.c = "return" THEN rejected ELSE rejected \cup {p}
    /\ statusFrom' = [kind |-> "load", n |-> p.n, outcome |-> o]
    /\ pending' = pending \ {p}
    /\ done' = Append(done, p)
    /\ packages' = Arr(<< >>)
    /\ UNCHANGED << mounts, pkgFrom >>
    /\ UNCHANGED << storeVars, apiResult, siteVars >>

\* +page.svelte:31-34, loadServerStatus resumes with the result of getServerStatus
LoadServerStatusDone(p, o) ==
    /\ p \in pending
    /\ p.op = "loadServerStatus"
    /\ LET r == getServerStatus(o)
       IN  /\ serverStatus' = IF r.c = "return" THEN r.v ELSE serverStatus
           /\ rejected' = IF r.c = "return" THEN rejected ELSE rejected \cup {p}
    /\ statusFrom' = [kind |-> "load", n |-> p.n, outcome |-> o]
    /\ pending' = pending \ {p}
    /\ done' = Append(done, p)
    /\ UNCHANGED << packages, mounts, pkgFrom >>
    /\ UNCHANGED << storeVars, apiResult, siteVars >>

NextPage ==
    \/ Mount
    \/ \E p \in pending, o \in PageOutcomes : LoadPackagesDone(p, o)
    \/ \E p \in pending, o \in PageOutcomes : LoadServerStatusDone(p, o)

-----------------------------------------------------------------------------
(* Text of the badge page, badges.md.  A text whose characters matter is a *)
(* sequence of UTF-16 code units, as a JavaScript string is.               *)

MaxMsgs == 2
MaxErrors == 3

Empty == << >>
Zenv == << 90, 101, 110, 118 >>                        \* "Zenv"
Version210 == << 50, 46, 49, 46, 48 >>                 \* "2.1.0"
CppGo == << 67, 43, 43, 32, 47, 32, 71, 111 >>         \* "C++ / Go"
Reserved == << 97, 63, 98, 35, 37, 50, 70 >>           \* "a?b#%2F"
Accented == << 233, 8364, 55357, 56832 >>              \* e acute, euro sign, U+1F600
LoneHigh == << 55357 >>                                \* the first half of U+1F600 alone

\* the texts typed into #badge-label, #badge-value and #badge-logo
Labels == {Empty, Zenv, CppGo, LoneHigh}
Values == {Empty, Version210, Reserved}
Logos == {Empty, Accented}

\* the options of #badge-color, badges.md:25-31
Blue == << 98, 108, 117, 101 >>
Green == << 103, 114, 101, 101, 110 >>
Red == << 114, 101, 100 >>
Orange == << 111, 114, 97, 110, 103, 101 >>
Yellow == << 121, 101, 108, 108, 111, 119 >>
Purple == << 112, 117, 114, 112, 108, 101 >>
Gray == << 103, 114, 97, 121 >>
Colors == {Blue, Green, Red, Orange, Yellow, Purple, Gray}

\* site.zenv_hub.api_url, here "https://zenv-hub.onrender.com"
Base == << 104, 116, 116, 112, 115, 58, 47, 47, 122, 101, 110, 118, 45, 104, 117, 98,
           46, 111, 110, 114, 101, 110, 100, 101, 114, 46, 99, 111, 109 >>
BadgePath == << 47, 98, 97, 100, 103, 101, 47, 99, 117, 115, 116, 111, 109, 47 >>
Slash == << 47 >>
ColonSpace == << 58, 32 >>
\* <base>/badge/custom/Error/Invalid/red
ErrorBadge == Base \o BadgePath \o << 69, 114, 114, 111, 114, 47, 73, 110, 118, 97, 108,
                                     105, 100, 47 >> \o Red

-----------------------------------------------------------------------------
(* encodeURIComponent, ECMAScript Encode with uriUnescaped as the          *)
(* unreserved set.                                                         *)

IsHigh(u) == u \in 55296 .. 56319
IsLow(u) == u \in 56320 .. 57343

\* A-Z a-z 0-9 - _ . ! ~ * ' ( )
Unreserved == (48 .. 57) \cup (65 .. 90) \cup (97 .. 122)
              \cup {45, 95, 46, 33, 126, 42, 39, 40, 41}

HexDigit(n) == IF n < 10 THEN 48 + n ELSE 55 + n
Percent(b) == << 37, HexDigit(b \div 16), HexDigit(b % 16) >>

RECURSIVE PercentAll(_)
PercentAll(octets) ==
    IF octets = << >> THEN << >>
    ELSE Percent(Head(octets)) \o PercentAll(Tail(octets))

CodePoint(hi, lo) == 65536 + (hi - 55296) * 1024 + (lo - 56320)

Utf8(cp) ==
    IF cp < 128 THEN << cp >>
    ELSE IF cp < 2048 THEN << 192 + (cp \div 64), 128 + (cp % 64) >>
    ELSE IF cp < 65536
         THEN << 224 + (cp \div 4096), 128 + ((cp \div 64) % 64), 128 + (cp % 64) >>
    ELSE << 240 + (cp \div 262144), 128 + ((cp \div 4096) % 64),
            128 + ((cp \div 64) % 64), 128 + (cp % 64) >>

URIError == [t |-> "URIError"]

\* the completion r with the text pre put before its value
Then(pre, r) == IF r.c = "return" THEN Return(pre \o r.v) ELSE r

RECURSIVE Encode(_, _)
Encode(s, k) ==
    IF k > Len(s) THEN Return(<< >>)
    ELSE LET u == s[k]
             pair == IsHigh(u) /\ k < Len(s) /\ IsLow(s[k + 1])
         IN  IF u \in Unreserved THEN Then(<< u >>, Encode(s, k + 1))
             ELSE IF IsLow(u) \/ (IsHigh(u) /\ ~pair) THEN Throw(URIError)
             ELSE IF pair
                  THEN Then(PercentAll(Utf8(CodePoint(u, s[k + 1]))), Encode(s, k + 2))
             ELSE Then(PercentAll(Utf8(u)), Encode(s, k + 1))

encodeURIComponent(s) == Encode(s, 1)

-----------------------------------------------------------------------------
(* The badge generator, badges.md:94-149.  The sample texts hold none of   *)
(* the characters " < > &, so the markup assigned to innerHTML parses to   *)
(* one img element whose src and alt are the texts put between the quotes. *)

\* s || d for texts: the empty text is falsy
OrText(s, d) == IF s = << >> THEN d ELSE s

labelRaw(f) == f.label
labelOrDefault(f) == OrText(f.label, Zenv)
valueOrDefault(f) == OrText(f.value, Version210)

logoSuffixAlways(logo) == Then(Slash, encodeURIComponent(logo))
logoSuffix(logo) ==
    IF logo # << >> THEN Then(Slash, encodeURIComponent(logo)) ELSE Return(<< >>)

\* the completion of updatePreview on the form f; a normal completion carries
\* what the run wrote to the three elements
updatePreview(f) ==
    LET label == labelOrDefault(f)
        value == valueOrDefault(f)
        L == encodeURIComponent(label)
        V == encodeURIComponent(value)
        G == logoSuffix(f.logo)
    IN  IF L.c = "throw" THEN L
        ELSE IF V.c = "throw" THEN V
        ELSE IF G.c = "throw" THEN G
        ELSE LET url == Base \o BadgePath \o L.v \o Slash \o V.v \o Slash \o f.color \o G.v
             IN  Return([img |-> [src |-> url, alt |-> label \o ColonSpace \o value,
                                  onerror |-> ErrorBadge, load |-> "loading",
                                  errors |-> 0],
                         markdown |-> << 33, 91 >> \o label \o ColonSpace \o value
                                      \o << 93, 40 >> \o url \o << 41 >>,
                         svgUrl |-> url])

\* the page after a run of updatePreview on the form f: an exception leaves
\* the three elements as they were
Shown(f) ==
    LET r == updatePreview(f)
    IN  IF r.c = "return" THEN r.v
        ELSE [img |-> badgeImg, markdown |-> markdownCode, svgUrl |-> svgUrl]

Ran(trigger, f) == [trigger |-> trigger, c |-> updatePreview(f).c]

InitialForm == [label |-> Zenv, value |-> Version210, color |-> Blue, logo |-> Empty]

\* the page once DOMContentLoaded has run updatePreview on the form as served
InitBadge ==
    /\ badgeForm = InitialForm
    /\ badgeImg = updatePreview(InitialForm).v.img
    /\ markdownCode = updatePreview(InitialForm).v.markdown
    /\ svgUrl = updatePreview(InitialForm).v.svgUrl
    /\ successMsgs = 0
    /\ lastRun = Ran("DOMContentLoaded", InitialForm)

InputLabel(s) ==
    LET f == [badgeForm EXCEPT !.label = s]
    IN  /\ s # badgeForm.label
        /\ badgeForm' = f
        /\ badgeImg' = Shown(f).img
        /\ markdownCode' = Shown(f).markdown
        /\ svgUrl' = Shown(f).svgUrl
        /\ lastRun' = Ran("label", f)
        /\ UNCHANGED successMsgs
        /\ UNCHANGED << storeVars, pageVars, apiResult, nonBadgeVars >>

InputValue(s) ==
    LET f == [badgeForm EXCEPT !.value = s]
    IN  /\ s # badgeForm.value
        /\ badgeForm' = f
        /\ badgeImg' = Shown(f).img
        /\ markdownCode' = Shown(f).markdown
        /\ svgUrl' = Shown(f).svgUrl
        /\ lastRun' = Ran("value", f)
        /\ UNCHANGED successMsgs
        /\ UNCHANGED << storeVars, pageVars, apiResult, nonBadgeVars >>

ChangeColor(c) ==
    LET f == [badgeForm EXCEPT !.color = c]
    IN  /\ c # badgeForm.color
        /\ badgeForm' = f
        /\ badgeImg' = Shown(f).img
        /\ markdownCode' = Shown(f).markdown
        /\ svgUrl' = Shown(f).svgUrl
        /\ lastRun' = Ran("color", f)
        /\ UNCHANGED successMsgs
        /\ UNCHANGED << storeVars, pageVars, apiResult, nonBadgeVars >>

InputLogo(s) ==
    LET f == [badgeForm EXCEPT !.logo = s]
    IN  /\ s # badgeForm.logo
        /\ badgeForm' = f
        /\ badgeImg' = Shown(f).img
        /\ markdownCode' = Shown(f).markdown
        /\ svgUrl' = Shown(f).svgUrl
        /\ lastRun' = Ran("logo", f)
        /\ UNCHANGED successMsgs
        /\ UNCHANGED << storeVars, pageVars, apiResult, nonBadgeVars >>

\* the click on the generate button: an exception of updatePreview ends the
\* handler before the success message is made
GenerateCustomBadge ==
    /\ successMsgs < MaxMsgs
    /\ badgeImg' = Shown(badgeForm).img
    /\ markdownCode' = Shown(badgeForm).markdown
    /\ svgUrl' = Shown(badgeForm).svgUrl
    /\ lastRun' = Ran("generate", badgeForm)
    /\ successMsgs' = IF updatePreview(badgeForm).c = "return" THEN successMsgs + 1
                      ELSE successMsgs
    /\ UNCHANGED badgeForm
    /\ UNCHANGED << storeVars, pageVars, apiResult, nonBadgeVars >>

\* one of the 3 s timers of badges.md:148 fires
SuccessMsgRemove ==
    /\ successMsgs > 0
    /\ successMsgs' = successMsgs - 1
    /\ UNCHANGED << badgeForm, badgeImg, markdownCode, svgUrl, lastRun >>
    /\ UNCHANGED << storeVars, pageVars, apiResult, nonBadgeVars >>

\* the request for the source of the preview image is answered with an image
ImgLoaded ==
    /\ badgeImg.load = "loading"
    /\ badgeImg' = [badgeImg EXCEPT !.load = "complete"]
    /\ UNCHANGED << badgeForm, markdownCode, svgUrl, successMsgs, lastRun >>
    /\ UNCHANGED << storeVars, pageVars, apiResult, nonBadgeVars >>

\* the request for the source of the preview image fails: the error event
\* runs the onerror attribute of badges.md:119, this.src = '<error badge>',
\* and every assignment to src, of the same URL too, starts a new request
ImgError ==
    /\ badgeImg.load = "loading"
    /\ badgeImg.errors < MaxErrors
    /\ badgeImg' = [badgeImg EXCEPT !.src = badgeImg.onerror, !.load = "loading",
                                    !.errors = @ + 1]
    /\ UNCHANGED << badgeForm, markdownCode, svgUrl, successMsgs, lastRun >>
    /\ UNCHANGED << storeVars, pageVars, apiResult, nonBadgeVars >>

NextBadge ==
    \/ \E s \in Labels : InputLabel(s)
    \/ \E s \in Values : InputValue(s)
    \/ \E c \in Colors : ChangeColor(c)
    \/ \E s \in Logos : InputLogo(s)
    \/ GenerateCustomBadge
    \/ SuccessMsgRemove

\* the preview image and the requests for its source
NextBadgeImage ==
    \/ \E s \in Labels : InputLabel(s)
    \/ \E c \in Colors : ChangeColor(c)
    \/ ImgLoaded
    \/ ImgError

-----------------------------------------------------------------------------
(* The packages page, packages.md:50-149.                                  *)

MaxFetches == 2

\* a JavaScript string given by its code units
Text(u) == [t |-> "text", u |-> u]
TruthyText(v) == IF v.t = "text" THEN v.u # << >> ELSE Truthy(v)

\* String.prototype.toLowerCase, for the ASCII letters the sample texts hold
toLowerCase(s) == [k \in 1 .. Len(s) |-> IF s[k] \in 65 .. 90 THEN s[k] + 32 ELSE s[k]]

\* String.prototype.includes
includes(hay, needle) ==
    \E o \in 0 .. Len(hay) - Len(needle) : SubSeq(hay, o + 1, o + Len(needle)) = needle

MyDbTool == << 109, 121, 45, 100, 98, 45, 116, 111, 111, 108 >>   \* "my-db-tool"
ZenvCore == << 122, 101, 110, 118, 45, 99, 111, 114, 101 >>       \* "zenv-core"
WebKit == << 87, 101, 98, 75, 105, 116 >>                         \* "WebKit"
DbAdmin == << 68, 66, 32, 65, 100, 109, 105, 110 >>               \* "DB Admin"
Ada == << 65, 100, 97 >>                                          \* "Ada"
TermDB == << 68, 66 >>                                            \* "DB"
TermAda == << 97, 100, 97 >>                                      \* "ada"
TermNone == << 122, 122, 45, 110, 111, 45, 109, 97, 116, 99, 104 >> \* "zz-no-match"

\* packages of /api/packages: name and version are texts, description and
\* author are texts, null or absent
PkgA == [name |-> Text(MyDbTool), version |-> Text(Version210), description |-> Undef,
         author |-> Text(Ada)]
PkgB == [name |-> Text(ZenvCore), version |-> Text(Version210),
         description |-> Text(DbAdmin), author |-> Null]
PkgC == [name |-> Text(WebKit), version |-> Text(Version210), description |-> Text(Empty),
         author |-> Undef]
PkgD == [name |-> Text(Ada), version |-> Text(Version210), description |-> Null,
         author |-> Text(ZenvCore)]

\* data.packages of the responses: lists of packages, or no such field
PackageLists == { << >>, << PkgA, PkgB, PkgC, PkgD >>, << PkgC, PkgB >>, << PkgD, PkgA, PkgA >> }
PackagesFields == {Arr(l) : l \in PackageLists} \cup {Undef}

\* the values of the search box
Terms == {Empty, TermDB, TermAda, TermNone}

\* a match on the name alone
matchesName(pkg, term) ==
    IF pkg.name.t # "text" THEN Throw(TypeError)
    ELSE Return(includes(toLowerCase(pkg.name.u), toLowerCase(term)))

\* the callback of allPackages.filter on one package, with the short circuits
\* of || and &&
matches(pkg, term) ==
    LET t == toLowerCase(term)
        hit(v) == includes(toLowerCase(v.u), t)
    IN  IF pkg.name.t # "text" THEN Throw(TypeError)
        ELSE IF hit(pkg.name) THEN Return(TRUE)
        ELSE IF TruthyText(pkg.description) /\ pkg.description.t # "text"
             THEN Throw(TypeError)
        ELSE IF TruthyText(pkg.description) /\ hit(pkg.description) THEN Return(TRUE)
        ELSE IF TruthyText(pkg.author) /\ pkg.author.t # "text" THEN Throw(TypeError)
        ELSE Return(TruthyText(pkg.author) /\ hit(pkg.author))

\* what filterPackages hands to displayPackages, or the exception it ends with
filterPackages(all, searchTerm) ==
    IF searchTerm = << >> THEN Return(all)
    ELSE IF \E i \in 1 .. Len(all) : matches(all[i], searchTerm).c = "throw"
         THEN Throw(TypeError)
    ELSE Return(Pick(all, {i \in 1 .. Len(all) : matches(all[i], searchTerm).v}, 1))

\* the page once DOMContentLoaded has started the first load
InitCatalog ==
    /\ allPackages = << >>
    /\ searchBox = Empty
    /\ catalogView = [grid |-> << >>, total |-> 0, loading |-> "block",
                      loadingError |-> FALSE, container |-> "none"]
    /\ fetches = 1
    /\ lastFilter = [op |-> "none"]

\* the input listener of #package-search, packages.md:57-59; grid holds the
\* packages displayPackages made cards of (none under the no-results message)
SearchInput(term) ==
    LET r == filterPackages(allPackages, term)
    IN  /\ term # searchBox
        /\ searchBox' = term
        /\ catalogView' = IF r.c = "return" THEN [catalogView EXCEPT !.grid = r.v]
                          ELSE catalogView
        /\ lastFilter' = [op |-> "filter", term |-> term, all |-> allPackages, c |-> r.c]
        /\ UNCHANGED << allPackages, fetches >>
        /\ UNCHANGED << storeVars, pageVars, apiResult, nonCatalogVars >>

RefreshPackages ==
    /\ fetches < MaxFetches
    /\ fetches' = fetches + 1
    /\ catalogView' = [catalogView EXCEPT !.loading = "block", !.container = "none"]
    /\ lastFilter' = [op |-> "refresh"]
    /\ UNCHANGED << allPackages, searchBox >>
    /\ UNCHANGED << storeVars, pageVars, apiResult, nonCatalogVars >>

\* loadPackages resumes with a parsed body whose packages field is field
LoadPackagesShown(field) ==
    LET list == IF TruthyText(field) THEN field.items ELSE << >>
    IN  /\ fetches > 0
        /\ fetches' = fetches - 1
        /\ allPackages' = list
        /\ catalogView' = [catalogView EXCEPT !.loading = "none", !.container = "block",
                                              !.total = Len(list), !.grid = list]
        /\ lastFilter' = [op |-> "load"]
        /\ UNCHANGED searchBox
        /\ UNCHANGED << storeVars, pageVars, apiResult, nonCatalogVars >>

\* fetch rejects or the body is not JSON: the catch block of packages.md:75-79
LoadPackagesFailed ==
    /\ fetches > 0
    /\ fetches' = fetches - 1
    /\ catalogView' = [catalogView EXCEPT !.loadingError = TRUE]
    /\ lastFilter' = [op |-> "loadFailed"]
    /\ UNCHANGED << allPackages, searchBox >>
    /\ UNCHANGED << storeVars, pageVars, apiResult, nonCatalogVars >>

NextCatalog ==
    \/ \E term \in Terms : SearchInput(term)
    \/ RefreshPackages
    \/ \E field \in PackagesFields : LoadPackagesShown(field)
    \/ LoadPackagesFailed

-----------------------------------------------------------------------------
(* The recent packages of the home pages: the script of routes/+page.svelte *)
(* lines 7-17 and loadRecentPackages of the static page (unnamed/part_000). *)

RecentCount == 5

\* a.slice(0, n)
sliceFrom0(a, n) == SubSeq(a, 1, IF Len(a) < n THEN Len(a) ELSE n)

\* eight packages in the order the server lists them, which is not sorted
Listed == << Pkg("p3", "1.0.0"), Pkg("p1", "1.0.0"), Pkg("p2", "1.0.0"), Pkg("p8", "1.0.0"),
             Pkg("p5", "1.0.0"), Pkg("p4", "1.0.0"), Pkg("p7", "1.0.0"), Pkg("p6", "1.0.0") >>

\* the lists written to the packages container or sent by /api/packages
HomeLists == {SubSeq(Listed, 1, n) : n \in {0, 3, 5, 8}}

\* $packages.subscribe(fn), +page.svelte:11: $packages is the value the
\* store holds, and the call is a call of that value's subscribe property
valueSubscribe(v) ==
    IF GetProp(v, "subscribe").t = "function" THEN Return(Undef) ELSE Throw(TypeError)

\* what the packages subscriber of +page.svelte:11-14 computes from value
recentOf(value) ==
    [recentPackages |-> sliceFrom0(value.items, RecentCount),
     packages |-> Len(value.items)]

InitHome ==
    /\ homeView = [created |-> "no"]
    /\ packagesSubs = << >>
    /\ recentDiv = [pending |-> TRUE, shown |-> "nothing", items |-> << >>]
    /\ lastHome = [op |-> "none"]

\* the component is created: its script runs down to the first exception.
\* Svelte subscribes the component to each store it reads as $name before the
\* script's own statements run; line 11 then calls subscribe on the array, so
\* the callback of lines 11-14 is handed to no store and onMount is not reached.
HomeCreate ==
    /\ homeView.created = "no"
    /\ packagesSubs' = Append(packagesSubs, "$packages")
    /\ homeView' = [created |-> IF valueSubscribe(packages).c = "return" THEN "yes"
                                ELSE "threw",
                    recentPackages |-> << >>,
                    stats |-> [packages |-> 0, badges |-> 0]]
    /\ lastHome' = [op |-> "create", c |-> valueSubscribe(packages).c]
    /\ UNCHANGED recentDiv
    /\ UNCHANGED << storeVars, pageVars, apiResult, nonHomeVars >>

\* packages.set(list) by any holder of the store: the new value goes to every
\* subscriber of the store; the subscriber "recent" is the callback of lines
\* 11-14
PackagesSet(list) ==
    /\ packages' = Arr(list)
    /\ pkgFrom' = [kind |-> "set"]
    /\ homeView' = IF \E i \in 1 .. Len(packagesSubs) : packagesSubs[i] = "recent"
                   THEN [homeView EXCEPT
                           !.recentPackages = recentOf(Arr(list)).recentPackages,
                           !.stats.packages = recentOf(Arr(list)).packages]
                   ELSE homeView
    /\ lastHome' = [op |-> "set"]
    /\ UNCHANGED << packagesSubs, recentDiv >>
    /\ UNCHANGED << serverStatus, pending, mounts, statusFrom, rejected, done >>
    /\ UNCHANGED << storeVars, apiResult, nonHomeVars >>

\* loadRecentPackages of the static page resumes with a parsed body whose
\* packages field is field
LoadRecentShown(field) ==
    /\ recentDiv.pending
    /\ recentDiv' = IF TruthyText(field) /\ Len(field.items) > 0
                    THEN [pending |-> FALSE, shown |-> "list",
                          items |-> sliceFrom0(field.items, RecentCount)]
                    ELSE [pending |-> FALSE, shown |-> "none available", items |-> << >>]
    /\ lastHome' = [op |-> "recent", field |-> field]
    /\ UNCHANGED << homeView, packagesSubs >>
    /\ UNCHANGED << storeVars, pageVars, apiResult, nonHomeVars >>

\* fetch rejects or the body is not JSON: the catch block only logs
LoadRecentFailed ==
    /\ recentDiv.pending
    /\ recentDiv' = [recentDiv EXCEPT !.pending = FALSE]
    /\ lastHome' = [op |-> "recentFailed"]
    /\ UNCHANGED << homeView, packagesSubs >>
    /\ UNCHANGED << storeVars, pageVars, apiResult, nonHomeVars >>

NextHome ==
    \/ HomeCreate
    \/ \E list \in HomeLists : PackagesSet(list)
    \/ \E field \in {Arr(l) : l \in HomeLists} \cup {Undef} : LoadRecentShown(field)
    \/ LoadRecentFailed

-----------------------------------------------------------------------------
(* formatBytes, PackageCard.svelte:27-33 and packages.md:151-157.  A byte   *)
(* count is written m * 1024^e, so that counts of a terabyte and more are *)
(* within 32-bit arithmetic; every count used is an integer below 2^53     *)
(* times a power of two, which a JavaScript number holds exactly, and the  *)
(* quotient of the logarithms is the exact one at each of them.            *)

MaxUnits == 12
MaxExp == 4

Notable == {512, 1000, 1023, 1024, 1025, 1152, 1536, 2047, 10240, 1048575, 1048576,
            1572864}
ByteCounts == {[m |-> m, e |-> e] : m \in (1 .. MaxUnits) \cup Notable, e \in 0 .. MaxExp}
              \cup {[m |-> 0, e |-> 0]}

\* pkg.size of a package: a byte count, or absent
Sizes == ByteCounts \cup {Undef}

\* pkg.size || 0
sizeOrZero(size) == IF size = Undef THEN [m |-> 0, e |-> 0] ELSE size

RECURSIVE FloorLog1024(_)
FloorLog1024(m) == IF m < 1024 THEN 0 ELSE 1 + FloorLog1024(m \div 1024)

RECURSIVE Pow1024(_)
Pow1024(j) == IF j = 0 THEN 1 ELSE 1024 * Pow1024(j - 1)

\* i = Math.floor(Math.log(bytes) / Math.log(k))
unitIndex(b) == b.e + FloorLog1024(b.m)

\* (bytes / Math.pow(k, i)).toFixed(2), in hundredths: the nearest integer to
\* 100 * bytes / k^i, the larger one of two
toFixed2(b) ==
    LET d == Pow1024(FloorLog1024(b.m))
    IN  (200 * b.m + d) \div (2 * d)

\* the decimal digits of n
RECURSIVE DecUnits(_)
DecUnits(n) ==
    IF n < 10 THEN << 48 + n >> ELSE DecUnits(n \div 10) \o << 48 + (n % 10) >>

\* the text of toFixed(2) for n hundredths
fixedText(n) == DecUnits(n \div 100) \o << 46, 48 + ((n % 100) \div 10), 48 + (n % 10) >>

\* the text of toFixed(2) kept as it is
numberTextPadded(n) ==
    DecUnits(n \div 100) \o << 46, 48 + ((n % 100) \div 10), 48 + (n % 10) >>

\* parseFloat(text of n hundredths) + '': the number written without
\* trailing zeros
numberText(n) ==
    IF n % 100 = 0 THEN DecUnits(n \div 100)
    ELSE IF n % 10 = 0 THEN DecUnits(n \div 100) \o << 46, 48 + ((n % 100) \div 10) >>
    ELSE fixedText(n)

sizes == << << 66, 121, 116, 101, 115 >>, << 75, 66 >>, << 77, 66 >>, << 71, 66 >> >>

\* '' + sizes[i]
unitText(i) ==
    IF i + 1 \in DOMAIN sizes THEN sizes[i + 1]
    ELSE << 117, 110, 100, 101, 102, 105, 110, 101, 100 >>

formatBytes(b) ==
    IF b.m = 0 THEN << 48, 32, 66, 121, 116, 101, 115 >>
    ELSE numberText(toFixed2(b)) \o << 32 >> \o unitText(unitIndex(b))

InitBytes == sizeValue = [shown |-> FALSE]

\* a package card is drawn: {formatBytes(pkg.size || 0)}
ShowSize(size) ==
    /\ sizeValue' = [shown |-> TRUE, bytes |-> sizeOrZero(size),
                     text |-> formatBytes(sizeOrZero(size))]
    /\ UNCHANGED << storeVars, pageVars, apiResult, nonBytesVars >>

NextBytes == \E size \in Sizes : ShowSize(size)

-----------------------------------------------------------------------------
(* The containers of store.js:4-9 and their subscribers.  Each container   *)
(* is a writable of svelte/store: subscribe(run) adds the callback after   *)
(* the ones the store has and runs it at once with the value held;         *)
(* set(new_value) tests the value held against the new one with            *)
(* safe_not_equal and, when they differ, stores the new one and runs the   *)
(* callbacks in the order they subscribed, before it returns.              *)

\* the containers the code writes with set, +page.svelte:28 and 33
Written == {"packages", "serverStatus"}

\* the callbacks that subscribe to a container
Subscribers == {"s1", "s2"}

ValueOf(c) == IF c = "packages" THEN packages ELSE serverStatus

\* what loadPackages and loadServerStatus hand to set: the results of
\* getPackages and of getServerStatus
SetValues(c) ==
    IF c = "packages" THEN {getPackages(o).v : o \in PageOutcomes}
    ELSE {getServerStatus(o).v : o \in PageOutcomes}

\* a != a ? b == b : a !== b || (a && typeof a === 'object') || typeof a === 'function'
\* on the value held (a) and the new value (b); every set hands over a value
\* just built from a response, so no two objects are the same object
safe_not_equal(a, b) ==
    IF a.t \in {"object", "array", "blob", "response", "function"} THEN TRUE ELSE a # b

\* one run of each callback with value v, in subscription order
Runs(subscribers, v) ==
    [i \in 1 .. Len(subscribers) |-> [sub |-> subscribers[i], value |-> v]]

\* a set that runs the callbacks whatever the value held
writableSetAlways(value, new_value, subscribers) ==
    [value |-> new_value, runs |-> Runs(subscribers, new_value)]

\* set(new_value) of a writable that holds value: the value it holds
\* afterwards and the callbacks it runs
writableSet(value, new_value, subscribers) ==
    IF safe_not_equal(value, new_value)
    THEN [value |-> new_value, runs |-> Runs(subscribers, new_value)]
    ELSE [value |-> value, runs |-> << >>]

InitHub ==
    /\ user = Null
    /\ badges = Arr(<< >>)
    /\ loading = Bool(FALSE)
    /\ subs = [c \in Written |-> << >>]
    /\ delivered = [op |-> "none"]

\* store.subscribe(run) by a consumer
Subscribe(c, s) ==
    /\ \A i \in 1 .. Len(subs[c]) : subs[c][i] # s
    /\ subs' = [subs EXCEPT ![c] = Append(@, s)]
    /\ delivered' = [op |-> "subscribe", store |-> c,
                     runs |-> << [sub |-> s, value |-> ValueOf(c)] >>]
    /\ UNCHANGED << user, badges, loading >>
    /\ UNCHANGED << storeVars, pageVars, apiResult, nonHubVars >>

\* the function subscribe returned is called
Unsubscribe(c, s) ==
    /\ \E i \in 1 .. Len(subs[c]) : subs[c][i] = s
    /\ subs' = [subs EXCEPT ![c] = Pick(@, {i \in 1 .. Len(@) : @[i] # s}, 1)]
    /\ delivered' = [op |-> "unsubscribe", store |-> c, runs |-> << >>]
    /\ UNCHANGED << user, badges, loading >>
    /\ UNCHANGED << storeVars, pageVars, apiResult, nonHubVars >>

\* packages.set(v) of +page.svelte:28 and serverStatus.set(v) of line 33
StoreSet(c, v) ==
    LET w == writableSet(ValueOf(c), v, subs[c])
    IN  /\ packages' = IF c = "packages" THEN w.value ELSE packages
        /\ serverStatus' = IF c = "serverStatus" THEN w.value ELSE serverStatus
        /\ pkgFrom' = IF c = "packages" THEN [kind |-> "set"] ELSE pkgFrom
        /\ statusFrom' = IF c = "serverStatus" THEN [kind |-> "set"] ELSE statusFrom
        /\ delivered' = [op |-> "set", store |-> c, value |-> v, before |-> ValueOf(c),
                         subscribers |-> subs[c], runs |-> w.runs]
        /\ UNCHANGED << pending, mounts, rejected, done >>
        /\ UNCHANGED << user, badges, loading, subs >>
        /\ UNCHANGED << storeVars, apiResult, nonHubVars >>

NextWritable ==
    \/ \E c \in Written, s \in Subscribers : Subscribe(c, s)
    \/ \E c \in Written, s \in Subscribers : Unsubscribe(c, s)
    \/ \E c \in Written : \E v \in SetValues(c) : StoreSet(c, v)

\* the `loading` the markup of +page.svelte:96 tests: the binding imported
\* from store.js in line 4, which is the store and not the value it holds
loadingImport == Obj([set |-> Function, update |-> Function, subscribe |-> Function])

\* {#if loading} ... {:else if recentPackages.length > 0}, +page.svelte:96-109
recentBranch(recent) ==
    IF Truthy(loadingImport) THEN "loading"
    ELSE IF Len(recent) > 0 THEN "grid"
    ELSE "none"

\* the operations on the six containers: those of the queue in a session that
\* works on the queue, and the loads of the home page in one that loads
NextClient ==
    \/ mounts = 0 /\ NextStore
    \/ lastOp = NoOp /\ NextPage

-----------------------------------------------------------------------------
(* The download button of a package card, PackageCard.svelte:7-25.         *)

MaxDownloads == 2

\* the bodies an answer to the download request has: responseType is 'blob',
\* so response.data is a Blob, which may be empty
DownloadBodies == {Blob(<< >>), Blob(<< 122, 118 >>)}

DownloadOutcomes ==
    {[kind |-> "network"], [kind |-> "timeout"]}
    \cup {[kind |-> "response", status |-> st, data |-> d] :
              st \in {200, 404, 500}, d \in DownloadBodies}

\* how lines 11-18 end: the file is handed to the browser, or one of the calls
\* (createObjectURL, appendChild, click) throws
Saves == {"saved", "throws"}

SuccessNotice == [message |-> "Package zv téléchargé!", type |-> "success"]
ErrorNotice == [message |-> "Erreur de téléchargement", type |-> "error"]

\* a handler that reports a download that gave nothing as an error
handleDownloadStrict(o, save) ==
    LET blob == downloadPackage(o)
    IN  IF blob.c = "throw" THEN << ErrorNotice >>
        ELSE IF Truthy(blob.v)
             THEN IF save = "throws" THEN << ErrorNotice >> ELSE << SuccessNotice >>
        ELSE << ErrorNotice >>

\* the addNotification calls of handleDownload, given the outcome of the
\* request and how saving ends
handleDownload(o, save) ==
    LET blob == downloadPackage(o)
    IN  IF blob.c = "throw" THEN << ErrorNotice >>
        ELSE IF Truthy(blob.v)
             THEN IF save = "throws" THEN << ErrorNotice >> ELSE << SuccessNotice >>
        ELSE << >>

InitCard ==
    /\ downloads = 0
    /\ lastDownload = [op |-> "none"]

\* the click on the download button: handleDownload runs up to its await
DownloadClick ==
    /\ downloads < MaxDownloads
    /\ downloads' = downloads + 1
    /\ UNCHANGED lastDownload
    /\ UNCHANGED << storeVars, pageVars, apiResult, nonCardVars >>

\* handleDownload resumes with the result of downloadPackage; addNotification
\* is called without a duration, which is then 3000 ms (store.js:12), one tick
\* of the clock here
HandleDownloadDone(o, save) ==
    LET n == handleDownload(o, save)
    IN  /\ downloads > 0
        /\ downloads' = downloads - 1
        /\ IF n = << >> THEN UNCHANGED storeVars
           ELSE addNotification(n[1].message, n[1].type, 1)
        /\ lastDownload' = [op |-> "download", blob |-> downloadPackage(o).v,
                            save |-> save, left |-> downloads - 1]
        /\ UNCHANGED << pageVars, apiResult, nonCardVars >>

NextCard ==
    \/ DownloadClick
    \/ \E o \in DownloadOutcomes, save \in Saves : HandleDownloadDone(o, save)
    \/ \E t \in timers : TimerFire(t)
    \/ Tick

-----------------------------------------------------------------------------
(* The initial state and the specifications.                               *)

InitRest ==
    /\ packages = Arr(<< >>)
    /\ serverStatus = Obj([status |-> Str("checking")])
    /\ pending = {}
    /\ mounts = 0
    /\ pkgFrom = [kind |-> "none"]
    /\ statusFrom = [kind |-> "none"]
    /\ rejected = {}
    /\ done = << >>
    /\ apiResult = [fn |-> "none"]

InitSite == InitBadge /\ InitCatalog /\ InitHome /\ InitBytes /\ InitHub /\ InitCard

Init == InitStore /\ InitRest /\ InitSite

SpecStore == Init /\ [][NextStore]_vars
SpecApi == Init /\ [][NextApi]_vars
SpecPage == Init /\ [][NextPage]_vars
SpecBadge == Init /\ [][NextBadge]_vars
SpecBadgeImage == Init /\ [][NextBadgeImage]_vars
SpecCatalog == Init /\ [][NextCatalog]_vars
SpecHome == Init /\ [][NextHome]_vars
SpecBytes == Init /\ [][NextBytes]_vars
SpecWritable == Init /\ [][NextWritable]_vars
SpecClient == Init /\ [][NextClient]_vars
SpecCard == Init /\ [][NextCard]_vars

-----------------------------------------------------------------------------
(* Properties of the notification queue.                                   *)

InQueue(c) == \E i \in 1 .. Len(born) : born[i] = c
WasInQueue(c) == \E i \in 1 .. Len(lastOp.bornBefore) : lastOp.bornBefore[i] = c
HasId(n, id) == \E i \in 1 .. Len(n) : n[i].id = id

\* q without the positions whose entry was built by call c
WithoutCall(q, b, c) == Pick(q, {i \in 1 .. Len(q) : b[i] # c}, 1)

\* C1: an addNotification call with duration > 0 leaves its entry in the
\* queue, the entry is gone once its timer has fired, and neither the call nor
\* the timer's removal adds, removes or changes any other entry.
C1_TimedEntryFrame ==
    /\ (lastOp.op = "add" /\ lastOp.duration > 0) =>
          /\ InQueue(lastOp.call)
          /\ WithoutCall(notifications, born, lastOp.call) = lastOp.before
          /\ WithoutCall(born, born, lastOp.call) = lastOp.bornBefore
    /\ \A c \in fired : ~InQueue(c)
    /\ lastOp.op = "timer" =>
          /\ notifications = WithoutCall(lastOp.before, lastOp.bornBefore, lastOp.call)
          /\ born = WithoutCall(lastOp.bornBefore, lastOp.bornBefore, lastOp.call)

\* C2: an entry created with duration <= 0 is still in the queue after every
\* step (an add, a timer firing, a removal) other than a removeNotification
\* call made with that entry's own id.
C2_PersistentStays ==
    \A c \in 1 .. Len(calls) :
        ( /\ calls[c].duration <= 0
          /\ lastOp.op \in {"add", "timer", "remove"}
          /\ WasInQueue(c)
          /\ ~(lastOp.op = "remove" /\ lastOp.id = calls[c].id) )
        => InQueue(c)

\* C3: the ids of the entries in the queue are pairwise distinct.
C3_IdsDistinct ==
    \A i, j \in 1 .. Len(notifications) :
        i # j => notifications[i].id # notifications[j].id

\* C4: removeNotification(id) removes the first entry with that id and nothing
\* else: the queue shrinks by at most one entry and the rest keeps its order.
C4_RemovesOne ==
    lastOp.op = "remove" =>
        /\ Len(lastOp.before) - Len(notifications) <= 1
        /\ notifications = removeFirstMatch(lastOp.before, lastOp.id)

\* C5: removeNotification is idempotent: on every queue the program reaches,
\* removing an id twice gives the queue of removing it once, and removing an
\* id no entry carries gives the queue back unchanged.
C5_RemoveIdempotent ==
    /\ \A id \in Ids :
          /\ removeNotification(removeNotification(notifications, id), id)
                = removeNotification(notifications, id)
          /\ ~HasId(notifications, id) => removeNotification(notifications, id) = notifications
    /\ lastOp.op = "remove" =>
          /\ removeNotification(notifications, lastOp.id) = notifications
          /\ ~HasId(lastOp.before, lastOp.id) =>
                (notifications = lastOp.before /\ born = lastOp.bornBefore)

\* a removeNotification call on a non-empty queue with an id that was issued
\* and whose entry an earlier removeNotification call already took out
C5_Witness ==
    /\ lastOp.op = "remove"
    /\ Len(lastOp.before) > 0
    /\ ~HasId(lastOp.before, lastOp.id)
    /\ \E c \in 1 .. Len(calls) : calls[c].id = lastOp.id
    /\ fired = {}

\* C6: addNotification appends exactly one entry {id, message, type} as the
\* last element, leaves the earlier entries where they were and returns the
\* id of the new entry; the entries in the queue are in order of creation.
C6_AppendsInOrder ==
    /\ lastOp.op = "add" =>
          /\ notifications = Append(lastOp.before,
                [id |-> lastOp.id, message |-> lastOp.message, type |-> lastOp.type])
          /\ born = Append(lastOp.bornBefore, lastOp.call)
          /\ lastOp.ret = notifications[Len(notifications)].id
    /\ \A i, j \in 1 .. Len(born) : i < j => born[i] < born[j]

\* an addNotification call that found an entry in the queue
C6_Witness ==
    /\ lastOp.op = "add"
    /\ Len(lastOp.before) > 0
    /\ Len(notifications) = 2

-----------------------------------------------------------------------------
(* Properties of the gateway and of the home page's loads.                 *)

\* the request failed: no response (network error, timeout) or a non-2xx status
Failed(o) == o.kind # "response" \/ o.status < 200 \/ o.status > 299

\* a 2xx response whose body is an object that carries a list in `field`
WellFormed(o, field) ==
    /\ ~Failed(o)
    /\ o.data.t = "object"
    /\ field \in DOMAIN o.data.fields
    /\ o.data.fields[field].t = "array"

\* C7: getPackages and getBadges never throw and always return a sequence:
\* the list of the packages/badges field for a well-formed 2xx body, and the
\* empty sequence for every other outcome of the request.
C7_ListOrEmpty ==
    apiResult.fn \in {"getPackages", "getBadges"} =>
        LET o == apiResult.outcome
            r == apiResult.result
            f == IF apiResult.fn = "getPackages" THEN "packages" ELSE "badges"
        IN  /\ r.c = "return"
            /\ r.v.t = "array"
            /\ r.v = IF WellFormed(o, f) THEN o.data.fields[f] ELSE Arr(<< >>)

ErrorStatus == Obj([status |-> Str("error"), github |-> Str("disconnected")])

\* C8: getServerStatus never throws and returns exactly {status: "error",
\* github: "disconnected"} when its request fails; after loadServerStatus
\* completes on a failed request the serverStatus container holds that value.
C8_ErrorStatusOnFailure ==
    /\ \A o \in Outcomes :
          /\ getServerStatus(o).c = "return"
          /\ Failed(o) => getServerStatus(o).v = ErrorStatus
    /\ \A p \in rejected : p.op # "loadServerStatus"
    /\ (statusFrom.kind = "load" /\ Failed(statusFrom.outcome)) => serverStatus = ErrorStatus

\* loadServerStatus has completed on a request that timed out
C8_Witness ==
    /\ statusFrom.kind = "load"
    /\ statusFrom.outcome.kind = "timeout"
    /\ serverStatus.t = "object"

\* C9: downloadPackage never throws: it returns the payload of the response
\* when the request succeeds and null on every failure.
C9_PayloadOrNull ==
    apiResult.fn = "downloadPackage" =>
        /\ apiResult.result.c = "return"
        /\ apiResult.result.v = IF Failed(apiResult.outcome) THEN Null
                                ELSE apiResult.outcome.data

\* downloadPackage has completed on a request the server answered with 404
C9_Witness ==
    /\ apiResult.fn = "downloadPackage"
    /\ apiResult.outcome.kind = "response"
    /\ apiResult.outcome.status = 404

\* the server answered, and its body carries an error: a non-empty string, a
\* non-zero number or an object in its error field
ServerGaveMessage(o) ==
    /\ o.kind = "response"
    /\ o.data.t = "object"
    /\ "error" \in DOMAIN o.data.fields
    /\ \/ o.data.fields.error.t = "string" /\ o.data.fields.error.s # ""
       \/ o.data.fields.error.t = "number" /\ o.data.fields.error.n # 0
       \/ o.data.fields.error.t = "object"

\* that error as the text of a message
ServerMessage(o) ==
    CASE o.data.fields.error.t = "string" -> o.data.fields.error.s
      [] o.data.fields.error.t = "number" -> DecStr(o.data.fields.error.n)
      [] OTHER -> "[object Object]"

\* C10: login and register return the session payload of a successful
\* request; on every failed request they throw an Error whose message is the
\* server's error message when it gave one, and otherwise "Login failed" /
\* "Registration failed" (also when there was no response at all).
C10_AuthFailurePropagates ==
    apiResult.fn \in {"login", "register"} =>
        LET o == apiResult.outcome
            r == apiResult.result
            generic == IF apiResult.fn = "login" THEN "Login failed" ELSE "Registration failed"
        IN  IF Failed(o)
            THEN /\ r.c = "throw"
                 /\ r.error.t = "Error"
                 /\ r.error.message = IF ServerGaveMessage(o) THEN ServerMessage(o) ELSE generic
            ELSE r = Return(o.data)

\* register has failed on a request the server answered with 404 and a
\* message, which the thrown error carries
C10_Witness ==
    /\ apiResult.fn = "register"
    /\ apiResult.outcome.kind = "response"
    /\ apiResult.outcome.status = 404
    /\ apiResult.result.c = "throw"
    /\ apiResult.result.error.message = "Invalid credentials"

-----------------------------------------------------------------------------
(* Properties of the home page's concurrent loads.                         *)

PkgLoad(n) == [op |-> "loadPackages", n |-> n]
StatusLoad(n) == [op |-> "loadServerStatus", n |-> n]
IsDone(p) == \E i \in 1 .. Len(done) : done[i] = p

\* C11: the two loads a mount starts complete in either order, neither waits
\* for the other, and each writes its own container only: whatever the two
\* requests came to, the packages container holds the result of getPackages
\* for the last package load completed and the serverStatus container the
\* result of getServerStatus for the last status load completed.
C11_LoadsIndependent ==
    /\ \A p \in pending :
          ENABLED (\E o \in PageOutcomes : LoadPackagesDone(p, o) \/ LoadServerStatusDone(p, o))
    /\ packages = IF pkgFrom.kind = "load" THEN getPackages(pkgFrom.outcome).v
                  ELSE Arr(<< >>)
    /\ serverStatus = IF statusFrom.kind = "load" THEN getServerStatus(statusFrom.outcome).v
                      ELSE Obj([status |-> Str("checking")])
    /\ pkgFrom.kind = "load" <=> \E n \in 1 .. mounts : IsDone(PkgLoad(n))
    /\ statusFrom.kind = "load" <=> \E n \in 1 .. mounts : IsDone(StatusLoad(n))
    /\ rejected = {}

\* both loads of the first mount have completed, the status load first (on a
\* failed request) and the package load second (on a successful one)
C11_Witness ==
    /\ done = << StatusLoad(1), PkgLoad(1) >>
    /\ statusFrom.outcome.kind = "network"
    /\ packages = PkgList
    /\ serverStatus = ErrorStatus

-----------------------------------------------------------------------------
(* Properties of the badge URL builder.                                    *)

StartsWith(s, pre) == Len(s) >= Len(pre) /\ SubSeq(s, 1, Len(pre)) = pre

\* the pieces of s between the occurrences of the code unit sep
RECURSIVE Split(_, _)
Split(s, sep) ==
    IF \A k \in 1 .. Len(s) : s[k] # sep THEN << s >>
    ELSE LET k == CHOOSE k \in 1 .. Len(s) : s[k] = sep /\ \A j \in 1 .. k - 1 : s[j] # sep
         IN  << SubSeq(s, 1, k - 1) >> \o Split(SubSeq(s, k + 1, Len(s)), sep)

\* the path segments of url after <base>/badge/custom/
Segments(url) ==
    IF StartsWith(url, Base \o BadgePath)
    THEN Split(SubSeq(url, Len(Base \o BadgePath) + 1, Len(url)), 47)
    ELSE << >>

HexValue(u) ==
    IF u \in 48 .. 57 THEN u - 48
    ELSE IF u \in 65 .. 70 THEN u - 55
    ELSE IF u \in 97 .. 102 THEN u - 87
    ELSE -1

\* the octet written as %XX at position k of s, -1 when there is none
Octet(s, k) ==
    IF k + 2 <= Len(s) /\ s[k] = 37 /\ HexValue(s[k + 1]) >= 0 /\ HexValue(s[k + 2]) >= 0
    THEN 16 * HexValue(s[k + 1]) + HexValue(s[k + 2])
    ELSE -1

Units(cp) ==
    IF cp < 65536 THEN << cp >>
    ELSE << 55296 + ((cp - 65536) \div 1024), 56320 + ((cp - 65536) % 1024) >>

\* percent-decoding: every %XX run is read as UTF-8, every other code unit
\* stands for itself; a run that is not UTF-8 ends
\* the result with -1
RECURSIVE Decode(_, _)
Decode(s, k) ==
    IF k > Len(s) THEN << >>
    ELSE IF s[k] # 37 THEN << s[k] >> \o Decode(s, k + 1)
    ELSE LET b == Octet(s, k)
             n == IF b < 0 THEN 0
                  ELSE IF b < 128 THEN 1
                  ELSE IF b \in 194 .. 223 THEN 2
                  ELSE IF b \in 224 .. 239 THEN 3
                  ELSE IF b \in 240 .. 244 THEN 4
                  ELSE 0
             c(j) == Octet(s, k + 3 * j) - 128
             cp == IF n = 1 THEN b
                   ELSE IF n = 2 THEN (b - 192) * 64 + c(1)
                   ELSE IF n = 3 THEN (b - 224) * 4096 + c(1) * 64 + c(2)
                   ELSE (b - 240) * 262144 + c(1) * 4096 + c(2) * 64 + c(3)
         IN  IF n = 0 \/ \E j \in 1 .. n - 1 : c(j) \notin 0 .. 63 THEN << -1 >>
             ELSE Units(cp) \o Decode(s, k + 3 * n)

PercentDecode(s) == Decode(s, 1)

\* the segment seg holds a code unit that is neither unreserved nor the "%" of
\* an escape
Unescaped(seg) == \E k \in 1 .. Len(seg) : seg[k] \notin Unreserved \cup {37}

\* C12: for every non-empty label, value and logo the built URL is
\* <base>/badge/custom/<L>/<V>/<color>[/<G>], no character of the input stands
\* unescaped in L, V or G, and percent-decoding L, V and G gives back the
\* label, the value and the logo.
C12_UrlRoundTrip ==
    LET f == badgeForm
        seg == Segments(svgUrl)
    IN  /\ lastRun.c = "return"
        /\ Len(seg) = IF f.logo = << >> THEN 3 ELSE 4
        /\ seg[3] = f.color
        /\ \A k \in 1 .. Len(seg) : ~Unescaped(seg[k])
        /\ f.label # << >> => PercentDecode(seg[1]) = f.label
        /\ f.value # << >> => PercentDecode(seg[2]) = f.value
        /\ f.logo # << >> => PercentDecode(seg[4]) = f.logo

\* the round trip of texts with reserved characters and of well-formed
\* non-ASCII text
C12_Witness ==
    /\ badgeForm.label = CppGo
    /\ badgeForm.value = Reserved
    /\ badgeForm.logo = Accented
    /\ lastRun.c = "return"
    /\ PercentDecode(Segments(svgUrl)[1]) = CppGo
    /\ PercentDecode(Segments(svgUrl)[2]) = Reserved
    /\ PercentDecode(Segments(svgUrl)[4]) = Accented

C14_LogoSegment ==
    LET f == badgeForm
        seg == Segments(svgUrl)
    IN  /\ Len(seg) \in {3, 4}
        /\ svgUrl[Len(svgUrl)] # 47
        /\ lastRun.c = "return" =>
              /\ Len(seg) = IF f.logo = << >> THEN 3 ELSE 4
              /\ f.logo # << >> => PercentDecode(seg[4]) = f.logo

\* the logo has just been cleared again
C14_Witness ==
    /\ lastRun = [trigger |-> "logo", c |-> "return"]
    /\ badgeForm.logo = << >>
    /\ Len(Segments(svgUrl)) = 3
    /\ svgUrl[Len(svgUrl)] # 47

\* C15: every run of updatePreview, whatever the four inputs hold, completes
\* without an exception and leaves the URL of the current inputs on the page.
C15_PreviewTotal ==
    /\ lastRun.c = "return"
    /\ updatePreview(badgeForm).c = "return"
    /\ svgUrl = updatePreview(badgeForm).v.svgUrl
    /\ badgeImg.src = svgUrl

\* a run on well-formed text completes within the input event
C15_Witness ==
    /\ lastRun = [trigger |-> "value", c |-> "return"]
    /\ badgeForm.value = Reserved
    /\ svgUrl = updatePreview(badgeForm).v.svgUrl

-----------------------------------------------------------------------------
(* Properties of the package catalog views.                                *)

\* the code unit u with a lower-case ASCII letter made upper-case
Fold(u) == IF u \in 97 .. 122 THEN u - 32 ELSE u

\* term occurs in the field v, letter case set aside; an absent field holds
\* nothing
OccursIn(term, v) ==
    /\ v.t = "text"
    /\ \E o \in 0 .. Len(v.u) - Len(term) :
          \A k \in 1 .. Len(term) : Fold(v.u[o + k]) = Fold(term[k])

\* the positions of the list all that search(term) is to keep
Wanted(all, term) ==
    {i \in 1 .. Len(all) : \/ OccursIn(term, all[i].name)
                           \/ OccursIn(term, all[i].description)
                           \/ OccursIn(term, all[i].author)}

\* g is the list all cut down to the positions in S, in the order of all
IsSubSeqAt(g, all, S) ==
    /\ Len(g) = Cardinality(S)
    /\ \E f \in [1 .. Len(g) -> 1 .. Len(all)] :
          /\ \A j \in 1 .. Len(g) : f[j] \in S /\ g[j] = all[f[j]]
          /\ \A j \in 1 .. Len(g) - 1 : f[j] < f[j + 1]

\* C16: a search with the empty term shows the whole catalog, a search with
\* any other term shows exactly the packages whose name, description or
\* author holds the term (letter case set aside), in catalog order; it never
\* raises and leaves the catalog as it was.
C16_Search ==
    lastFilter.op = "filter" =>
        /\ lastFilter.c = "return"
        /\ allPackages = lastFilter.all
        /\ IF lastFilter.term = << >> THEN catalogView.grid = allPackages
           ELSE IsSubSeqAt(catalogView.grid, allPackages,
                           Wanted(allPackages, lastFilter.term))

\* "DB" finds "my-db-tool" by its name and the package described as
\* "DB Admin", and nothing else of the four
C16_Witness ==
    /\ lastFilter.op = "filter"
    /\ lastFilter.term = TermDB
    /\ allPackages = << PkgA, PkgB, PkgC, PkgD >>
    /\ catalogView.grid = << PkgA, PkgB >>

\* the first min(n, Len(a)) entries of a, in the order of a
FirstN(a, n) == [i \in 1 .. (IF Len(a) < n THEN Len(a) ELSE n) |-> a[i]]

\* C17: the recent list is the first five entries of the package sequence in
\* its own order (all of them when there are fewer), and after every write to
\* the packages container the home page's recent list is the first five
\* entries of the new value and its package count the length of the new value.
C17_RecentFirstFive ==
    /\ (lastHome.op = "recent" /\ recentDiv.shown = "list") =>
          recentDiv.items = FirstN(lastHome.field.items, 5)
    /\ (lastHome.op = "set" /\ homeView.created # "no") =>
          /\ homeView.recentPackages = FirstN(packages.items, 5)
          /\ homeView.stats.packages = Len(packages.items)

\* the static page shows the first five of eight listed packages, unsorted
C17_Witness ==
    /\ lastHome.op = "recent"
    /\ recentDiv.shown = "list"
    /\ Len(lastHome.field.items) = 8
    /\ recentDiv.items = << Listed[1], Listed[2], Listed[3], Listed[4], Listed[5] >>

-----------------------------------------------------------------------------
(* Properties of formatBytes.                                              *)

\* the position of the first code unit u in the text t, 0 when there is none
IndexOfUnit(t, u) ==
    IF \E k \in 1 .. Len(t) : t[k] = u
    THEN CHOOSE k \in 1 .. Len(t) : t[k] = u /\ \A j \in 1 .. k - 1 : t[j] # u
    ELSE 0

\* the text before the first space and the text after it
MantissaPart(t) == SubSeq(t, 1, IndexOfUnit(t, 32) - 1)
UnitPart(t) == SubSeq(t, IndexOfUnit(t, 32) + 1, Len(t))

\* the digits before and after the decimal point of a mantissa text
Whole(mant) ==
    IF IndexOfUnit(mant, 46) = 0 THEN mant ELSE SubSeq(mant, 1, IndexOfUnit(mant, 46) - 1)
Decimals(mant) ==
    IF IndexOfUnit(mant, 46) = 0 THEN << >>
    ELSE SubSeq(mant, IndexOfUnit(mant, 46) + 1, Len(mant))

AllDigits(ds) == \A k \in 1 .. Len(ds) : ds[k] \in 48 .. 57

RECURSIVE IntOf(_)
IntOf(ds) ==
    IF ds = << >> THEN 0 ELSE 10 * IntOf(SubSeq(ds, 1, Len(ds) - 1)) + (ds[Len(ds)] - 48)

\* the number a mantissa text with at most two decimals denotes, in hundredths
Hundredths(mant) ==
    100 * IntOf(Whole(mant))
    + (IF Len(Decimals(mant)) = 1 THEN 10 * IntOf(Decimals(mant)) ELSE IntOf(Decimals(mant)))

\* a mantissa text: digits, and after a point one or two digits more
IsDecimal(mant) ==
    /\ IndexOfUnit(mant, 32) = 0
    /\ Len(Whole(mant)) >= 1 /\ AllDigits(Whole(mant))
    /\ AllDigits(Decimals(mant)) /\ Len(Decimals(mant)) <= 2
    /\ IndexOfUnit(mant, 46) # 0 => Len(Decimals(mant)) >= 1

Abs(x) == IF x < 0 THEN -x ELSE x

\* the unit of the count b = m * 1024^e by size: 1024^i <= b < 1024^(i + 1)
UnitOf(b) ==
    b.e + (CHOOSE j \in 0 .. 2 : Pow1024(j) <= b.m /\ b.m < Pow1024(j + 1))

\* n hundredths is b / 1024^i rounded to two decimals
IsRounded(n, b) ==
    LET d == Pow1024(UnitOf(b) - b.e)
    IN  2 * Abs(n * d - 100 * b.m) <= d

UnitNames == { << 66, 121, 116, 101, 115 >>, << 75, 66 >>, << 77, 66 >>, << 71, 66 >> }
ZeroBytes == << 48, 32, 66, 121, 116, 101, 115 >>                \* "0 Bytes"

C19_UnitInRange ==
    sizeValue.shown =>
        IF sizeValue.bytes.m = 0 THEN sizeValue.text = ZeroBytes
        ELSE /\ UnitOf(sizeValue.bytes) \in 0 .. 3
             /\ UnitPart(sizeValue.text) = sizes[UnitOf(sizeValue.bytes) + 1]
             /\ Hundredths(MantissaPart(sizeValue.text)) >= 100
             /\ Hundredths(MantissaPart(sizeValue.text)) < 102400

\* 1536 * 1024^2 bytes are shown as "1.5 GB"
C19_Witness ==
    /\ sizeValue.shown
    /\ sizeValue.bytes = [m |-> 1536, e |-> 2]
    /\ sizeValue.text = << 49, 46, 53, 32, 71, 66 >>

-----------------------------------------------------------------------------
(* Properties of a notification's timer after an explicit removal.         *)

\* the timer of call c is the only one that has fired, and the entry of call
\* c had left the queue before: it was taken out by a removeNotification call
RemovedEarly(c) == fired = {c} /\ ~WasInQueue(c)

\* C20: the timer of a notification with duration > 0 stays armed until it
\* fires, also when the notification is removed explicitly first, and its
\* firing after such a removal leaves the queue exactly as it was: it removes
\* no notification made by another addNotification call.
C20_LateTimerNoOp ==
    /\ \A c \in 1 .. Len(calls) :
          (calls[c].duration > 0 /\ c \notin fired) => \E t \in timers : t.call = c
    /\ (lastOp.op = "timer" /\ RemovedEarly(lastOp.call)) =>
          /\ notifications = lastOp.before
          /\ born = lastOp.bornBefore

\* a late firing that finds another call's notification and leaves it
C20_Witness ==
    /\ lastOp.op = "timer"
    /\ RemovedEarly(lastOp.call)
    /\ born # << >>
    /\ notifications = lastOp.before

-----------------------------------------------------------------------------
(* Properties of a notification's lifecycle.                               *)

\* C21: a timer firing for an id changes the queue exactly as an explicit
\* removeNotification(id) does in the same state, and the entry an
\* addNotification call made, once it has left the queue, is in the queue in
\* no later state.
C21_OneWayOut ==
    [][ /\ lastOp'.op = "timer" =>
              /\ lastOp'.id \in Ids
              /\ notifications' = Pick(notifications,
                                       {i \in 1 .. Len(notifications) :
                                            notifications[i].id # lastOp'.id}, 1)
        /\ \A c \in 1 .. Len(calls) : ~InQueue(c) => \A i \in 1 .. Len(born') : born'[i] # c
      ]_vars

\* a timer has taken its entry out and left the entry of another call
C21_Witness ==
    /\ lastOp.op = "timer"
    /\ WasInQueue(lastOp.call)
    /\ ~InQueue(lastOp.call)
    /\ notifications # << >>

-----------------------------------------------------------------------------
(* Properties of the writes to the containers.                             *)

\* n of the package load that completed last
LastPkgLoad ==
    LET I == {i \in 1 .. Len(done) : done[i].op = "loadPackages"}
    IN  done[CHOOSE i \in I : \A j \in I : j <= i].n

\* C22: with two loads of the packages container in flight at once, the
\* container holds the whole result of the load that completed last, also
\* when that load was started first, and nothing of what it held before.
C22_LastWriterWins ==
    pkgFrom.kind = "load" =>
        /\ pkgFrom.n = LastPkgLoad
        /\ packages = getPackages(pkgFrom.outcome).v

\* the load of the second mount completed first and wrote the list, the load
\* of the first mount completed last with an empty result
C22_Witness ==
    /\ IsDone(PkgLoad(1)) /\ IsDone(PkgLoad(2))
    /\ LastPkgLoad = 1
    /\ pkgFrom.before = PkgList
    /\ packages = Arr(<< >>)

Checking == Obj([status |-> Str("checking")])

\* C23: every server-status poll, a second or later one included, starts
\* with the serverStatus container put back to status "checking", and leaves
\* it with status "ok" or "error" when it completes.
C23_CheckingPerPoll ==
    [][ /\ mounts' # mounts => serverStatus' = Checking
        /\ statusFrom' # statusFrom =>
              GetProp(serverStatus', "status") \in {Str("ok"), Str("error")}
      ]_vars

\* the first poll is in flight and the container still holds its initial value
C23_Witness ==
    /\ mounts = 1
    /\ StatusLoad(1) \in pending
    /\ serverStatus = Checking

\* C26: when the request of getPackages fails (no response, or a non-2xx
\* status), loadPackages still writes to the packages container, the value it
\* writes is the empty sequence whatever catalog the container held, and the
\* step enqueues no notification.
C26_FailureEmptiesCatalog ==
    [][ (pkgFrom' # pkgFrom /\ pkgFrom'.kind = "load" /\ Failed(pkgFrom'.outcome)) =>
            /\ packages' = Arr(<< >>)
            /\ notifications' = notifications
            /\ calls' = calls
      ]_vars

\* a failed load has replaced a loaded catalog by the empty sequence
C26_Witness ==
    /\ pkgFrom.kind = "load"
    /\ Failed(pkgFrom.outcome)
    /\ pkgFrom.before = PkgList
    /\ packages = Arr(<< >>)

\* C29: on the packages page the grid always holds the result of searching
\* the current catalog for the term the search box holds, whatever search
\* inputs, refreshes and load completions came before; a load that completes
\* while a term is entered does not show the packages the term leaves out.
C29_GridIsSearch ==
    LET r == filterPackages(allPackages, searchBox)
    IN  r.c = "return" => catalogView.grid = r.v

\* a load has completed under a term that leaves out some of what it fetched
C29_Witness ==
    /\ lastFilter.op = "load"
    /\ searchBox # Empty
    /\ filterPackages(allPackages, searchBox).c = "return"
    /\ filterPackages(allPackages, searchBox).v # allPackages

\* C30: the error handling of the preview image ends: a failed load puts the
\* error badge <base>/badge/custom/Error/Invalid/red in the source, and every
\* run of the handler changes the source or takes the handler off, so that
\* the handler cannot run again and again on one image when the error badge
\* fails to load as well.
C30_ErrorHandlingEnds ==
    [][ badgeImg'.errors > badgeImg.errors =>
            /\ badgeImg'.src = ErrorBadge
            /\ \/ badgeImg'.load # "loading"
               \/ badgeImg'.src # badgeImg.src
               \/ badgeImg'.onerror # badgeImg.onerror
      ]_vars

\* the error badge itself has failed to load, and the handler has run again
C30_Witness ==
    /\ badgeImg.src = ErrorBadge
    /\ badgeImg.errors = MaxErrors
    /\ badgeImg.load = "loading"

-----------------------------------------------------------------------------
(* Properties of the containers, of the download button and of the home    *)
(* page's markup.                                                          *)

Six == << user, packages, badges, serverStatus, loading, notifications >>

\* C25: a step changes the value of at most one of the six containers; a
\* step of addNotification, removeNotification or a timer changes none but
\* notifications, a completion of loadPackages none but packages, and a
\* completion of loadServerStatus none but serverStatus.
C25_OneContainerPerStep ==
    [][ /\ Cardinality({i \in 1 .. 6 : Six'[i] # Six[i]}) <= 1
        /\ lastOp' # lastOp =>
               << user, packages, badges, serverStatus, loading >>'
                   = << user, packages, badges, serverStatus, loading >>
        /\ (done' # done /\ done'[Len(done')].op = "loadPackages") =>
               << user, badges, serverStatus, loading, notifications >>'
                   = << user, badges, serverStatus, loading, notifications >>
        /\ (done' # done /\ done'[Len(done')].op = "loadServerStatus") =>
               << user, packages, badges, loading, notifications >>'
                   = << user, packages, badges, loading, notifications >>
      ]_vars

\* a status load has completed after a package load that filled the catalog
C25_Witness ==
    /\ pkgFrom.kind = "load"
    /\ statusFrom.kind = "load"
    /\ done[Len(done)].op = "loadServerStatus"
    /\ packages = PkgList
    /\ serverStatus # Obj([status |-> Str("checking")])
    /\ << user, badges, loading >> = << Null, Arr(<< >>), Bool(FALSE) >>

\* C27: a handleDownload call enqueues at most one notification: one of type
\* "success" exactly when downloadPackage returned a payload and saving it
\* raised no exception, one of type "error" exactly when saving the payload
\* raised an exception, and none when downloadPackage returned null.
C27_OneNotice ==
    [][ downloads' < downloads =>
            LET added == Len(calls') - Len(calls)
                type == IF added = 1 THEN lastOp'.type ELSE "none"
                r == lastDownload'
            IN  /\ added \in {0, 1}
                /\ Len(notifications') = Len(notifications) + added
                /\ type = "success" <=> (r.blob # Null /\ r.save = "saved")
                /\ type = "error" <=> (r.blob # Null /\ r.save = "throws")
                /\ r.blob = Null => added = 0
      ]_vars

\* saving a payload has failed and the error notification is in the queue
C27_Witness ==
    /\ lastDownload.op = "download"
    /\ lastDownload.blob # Null
    /\ lastDownload.save = "throws"
    /\ lastOp.op = "add"
    /\ lastOp.type = "error"
    /\ notifications # << >>

\* C28: the loading container holds false in every state, and the home page
\* does not show its "loading" branch while a package fetch is in flight.
C28_NeverLoading ==
    /\ loading = Bool(FALSE)
    /\ (\E p \in pending : p.op = "loadPackages") => recentBranch(<< >>) # "loading"

\* a package fetch is in flight, the container holds false, and the markup
\* is in its "loading" branch
C28_Witness ==
    /\ \E p \in pending : p.op = "loadPackages"
    /\ loading = Bool(FALSE)
    /\ recentBranch(<< >>) = "loading"

====
